---- MODULE Spec2Model ----
(***************************************************************************)
(* The APS3200 auxiliary power unit of src/systems/systems/src/apu:        *)
(* the turbine state machine (Shutdown, Starting, Running, Stopping) and   *)
(* the generator driven by it.                                             *)
(*                                                                         *)
(* Quantities are fixed-point integers:                                    *)
(*   time         Duration in steps of 500 ms   (UnitsPerSecond steps/s)   *)
(*   N            Ratio in 1/1000 percent       (100000 is 100 percent)    *)
(*   temperature  1/100 degree Celsius                                     *)
(*   bleed offset 1/10 degree Celsius                                      *)
(*   potential    volt, frequency 1/1000 hertz, current 1/100 ampere       *)
(*                                                                         *)
(* The regression polynomials of the source are evaluated in IEEE double   *)
(* precision, with powi as repeated multiplication, at every point of the  *)
(* 500 ms grid and tabulated below; the clamps, the thresholds and all     *)
(* other arithmetic are carried out by the operators that use the tables.  *)
(* An N strictly between two thousandths is rounded down, so comparisons   *)
(* with 0, 84, 85 and 100 percent decide as they do on the double.         *)
(***************************************************************************)
EXTENDS Integers, Sequences, FiniteSets, TLC

VARIABLES
    turbine,     \* the live Box<dyn Turbine>: a record tagged by its state
    ambient,     \* context.ambient_temperature
    used,        \* ticks of this running episode with the bleed air or the generator in use
    last,        \* the latest turbine tick: the state it began in, what the controller asked
    generator,   \* the Aps3200ApuGenerator
    gen_input,   \* the latest generator update: its n and is_emergency_shutdown
    probe        \* the latest direct evaluation of the generator's formulas

vars == <<turbine, ambient, used, last, generator, gen_input, probe>>

(***************************************************************************)
(* Bounds of the model and inputs.                                         *)
(***************************************************************************)
UnitsPerSecond == 2

\* context.delta of an ordinary tick: TickStep, 2 * TickStep, ... steps.
TickStep == 3
MaxTickMult == 2
\* A tick as long as the tests' run(Duration::from_secs(1_000)).
LongDelta == 2000
Deltas == {k * TickStep : k \in 1..MaxTickMult} \cup {LongDelta}
\* context.delta of the start sequence observed tick by tick.
MaxFineDelta == 2
FineDeltas == 1..MaxFineDelta

\* The bleed air or the generator is in use on at most MaxUsedTicks ticks of a
\* running episode.
MaxUsedTicks == 1

Ambients == {1500}
\* The ambient temperatures of the start sequence observed tick by tick.
FineAmbients == {-1000, 2500}

\* random_number() % 11, % 6 and % 101: the draws explored.
BaseEgtDraws == {0, 10}
ApuGenDraws == {0, 5}
BleedAirDraws == {0, 100}

Min(a, b) == IF a < b THEN a ELSE b
Max(a, b) == IF a > b THEN a ELSE b
Abs(a) == IF a < 0 THEN -a ELSE a

Percent100 == 100000

(***************************************************************************)
(* Tabulated polynomials.                                                  *)
(***************************************************************************)
\* Starting::calculate_n: the polynomial at ignition_turned_on_secs = 0.5, 1.0,
\* ..., 45.0 s and, last, at TIME_LIMIT = 45.12 s, before .min(100.).max(0.).
StartingNTable ==
    << 1756, 4466, 7366, 10087, 12464, 14460, 16110, 17484, 18658, 19703,
       20676, 21619, 22557, 23500, 24448, 25396, 26331, 27243, 28122, 28959,
       29750, 30497, 31202, 31873, 32521, 33155, 33790, 34437, 35106, 35808,
       36549, 37335, 38168, 39047, 39971, 40936, 41935, 42963, 44013, 45078,
       46153, 47232, 48311, 49388, 50462, 51532, 52600, 53667, 54737, 55813,
       56896, 57991, 59097, 60216, 61348, 62490, 63639, 64791, 65941, 67083,
       68212, 69321, 70406, 71462, 72487, 73482, 74446, 75385, 76305, 77212,
       78117, 79031, 79964, 80929, 81934, 82989, 84101, 85272, 86505, 87797,
       89142, 90532, 91955, 93394, 94827, 96225, 97540, 98704, 99606, 100074,
       100096 >>

\* Starting::calculate_egt: <<n, temperature>> for every N the turbine takes
\* while starting, and for the raw values of the curve above 100 percent.
StartingEgtByN ==
    { <<0, -9234>>, <<1756, -9298>>, <<4466, -6863>>, <<7366, -4499>>, <<10087, -221>>,
      <<12464, 6516>>, <<14460, 14184>>, <<16110, 21425>>, <<17484, 27711>>, <<18658, 33053>>,
      <<19703, 37659>>, <<20676, 41745>>, <<21619, 45460>>, <<22557, 48881>>, <<23500, 52025>>,
      <<24448, 54875>>, <<25396, 57411>>, <<26331, 59617>>, <<27243, 61499>>, <<28122, 63077>>,
      <<28959, 64387>>, <<29750, 65467>>, <<30497, 66360>>, <<31202, 67104>>, <<31873, 67731>>,
      <<32521, 68270>>, <<33155, 68742>>, <<33790, 69165>>, <<34437, 69550>>, <<35106, 69906>>,
      <<35808, 70236>>, <<36549, 70544>>, <<37335, 70826>>, <<38168, 71080>>, <<39047, 71300>>,
      <<39971, 71479>>, <<40936, 71609>>, <<41935, 71682>>, <<42963, 71689>>, <<44013, 71625>>,
      <<45078, 71485>>, <<46153, 71268>>, <<47232, 70979>>, <<48311, 70623>>, <<49388, 70210>>,
      <<50462, 69750>>, <<51532, 69255>>, <<52600, 68735>>, <<53667, 68199>>, <<54737, 67657>>,
      <<55813, 67113>>, <<56896, 66573>>, <<57991, 66038>>, <<59097, 65505>>, <<60216, 64971>>,
      <<61348, 64426>>, <<62490, 63859>>, <<63639, 63256>>, <<64791, 62603>>, <<65941, 61889>>,
      <<67083, 61104>>, <<68212, 60245>>, <<69321, 59317>>, <<70406, 58330>>, <<71462, 57300>>,
      <<72487, 56246>>, <<73482, 55188>>, <<74446, 54142>>, <<75385, 53123>>, <<76305, 52141>>,
      <<77212, 51201>>, <<78117, 50308>>, <<79031, 49464>>, <<79964, 48671>>, <<80929, 47933>>,
      <<81934, 47255>>, <<82989, 46636>>, <<84101, 46075>>, <<85272, 45555>>, <<86505, 45048>>,
      <<87797, 44512>>, <<89142, 43899>>, <<90532, 43181>>, <<91955, 42378>>, <<93394, 41581>>,
      <<94827, 40946>>, <<96225, 40611>>, <<97540, 40549>>, <<98704, 40470>>, <<99606, 40041>>,
      <<100000, 39627>>,
      <<100074, 39526>>, <<100096, 39496>> }

\* Stopping::calculate_n: the polynomial at since = 0.0, 0.5, ..., 49.0 s and,
\* last, at TIME_LIMIT = 49.411 s, before .min(100.).max(0.).
StoppingNTable ==
    << 100229, 88535, 78128, 68957, 60948, 54010, 48044, 42944, 38607, 34934,
       31829, 29207, 26986, 25099, 23484, 22087, 20866, 19784, 18811, 17924,
       17105, 16340, 15620, 14938, 14290, 13675, 13090, 12536, 12012, 11520,
       11059, 10629, 10231, 9862, 9522, 9208, 8920, 8653, 8406, 8175,
       7959, 7753, 7555, 7363, 7175, 6989, 6803, 6618, 6431, 6244,
       6056, 5868, 5681, 5496, 5315, 5138, 4966, 4802, 4646, 4499,
       4361, 4232, 4114, 4004, 3903, 3810, 3723, 3640, 3561, 3484,
       3406, 3327, 3245, 3159, 3068, 2972, 2871, 2764, 2653, 2538,
       2421, 2303, 2186, 2071, 1958, 1847, 1740, 1634, 1527, 1418,
       1301, 1175, 1034, 877, 702, 514, 322, 144, 11, -31 >>

\* Stopping::calculate_egt_delta: <<n, delta>> for every N the turbine takes
\* while stopping, and for the raw values of the curve outside 0..100 percent.
StoppingEgtDeltaByN ==
    { <<0, -12573>>, <<11, -12570>>, <<144, -12536>>, <<322, -12494>>, <<514, -12454>>,
      <<702, -12419>>, <<877, -12392>>, <<1034, -12370>>, <<1175, -12352>>, <<1301, -12339>>,
      <<1418, -12327>>, <<1527, -12318>>, <<1634, -12310>>, <<1740, -12303>>, <<1847, -12296>>,
      <<1958, -12291>>, <<2071, -12286>>, <<2186, -12282>>, <<2303, -12279>>, <<2421, -12277>>,
      <<2538, -12276>>, <<2653, -12275>>, <<2764, -12275>>, <<2871, -12275>>, <<2972, -12276>>,
      <<3068, -12278>>, <<3159, -12279>>, <<3245, -12281>>, <<3327, -12283>>, <<3406, -12285>>,
      <<3484, -12287>>, <<3561, -12289>>, <<3640, -12292>>, <<3723, -12295>>, <<3810, -12298>>,
      <<3903, -12301>>, <<4004, -12305>>, <<4114, -12310>>, <<4232, -12315>>, <<4361, -12320>>,
      <<4499, -12326>>, <<4646, -12333>>, <<4802, -12340>>, <<4966, -12347>>, <<5138, -12355>>,
      <<5315, -12363>>, <<5496, -12370>>, <<5681, -12378>>, <<5868, -12385>>, <<6056, -12392>>,
      <<6244, -12398>>, <<6431, -12403>>, <<6618, -12408>>, <<6803, -12412>>, <<6989, -12416>>,
      <<7175, -12418>>, <<7363, -12420>>, <<7555, -12421>>, <<7753, -12421>>, <<7959, -12420>>,
      <<8175, -12417>>, <<8406, -12414>>, <<8653, -12408>>, <<8920, -12400>>, <<9208, -12389>>,
      <<9522, -12375>>, <<9862, -12357>>, <<10231, -12334>>, <<10629, -12306>>, <<11059, -12272>>,
      <<11520, -12231>>, <<12012, -12183>>, <<12536, -12128>>, <<13090, -12065>>, <<13675, -11996>>,
      <<14290, -11920>>, <<14938, -11838>>, <<15620, -11751>>, <<16340, -11660>>, <<17105, -11565>>,
      <<17924, -11466>>, <<18811, -11366>>, <<19784, -11263>>, <<20866, -11160>>, <<22087, -11057>>,
      <<23484, -10954>>, <<25099, -10852>>, <<26986, -10747>>, <<29207, -10628>>, <<31829, -10479>>,
      <<34934, -10283>>, <<38607, -10058>>, <<42944, -9904>>, <<48044, -9979>>, <<54010, -10229>>,
      <<60948, -9815>>, <<68957, -7265>>, <<78128, -2992>>, <<88535, -475>>, <<100000, 194>>,
      <<-31, -12582>>, <<100229, 306>> }

\* Aps3200ApuGenerator::calculate_frequency, the branch n < 100: <<n, hertz>>
\* for every N in [84, 100) percent the model hands to the generator.
RampFrequencyByN ==
    { <<84000, 336019>>, <<84101, 336185>>, <<84500, 336753>>, <<85000, 337871>>, <<85272, 338420>>,
      <<86505, 342964>>, <<87797, 348240>>, <<88535, 351537>>, <<89142, 354147>>, <<90000, 357461>>,
      <<90532, 359471>>, <<91955, 365543>>, <<93394, 370472>>, <<94827, 374585>>, <<96225, 379170>>,
      <<97540, 384708>>, <<98704, 392775>>, <<99606, 398449>>, <<99999, 400031>> }

\* BleedAirUsageEgtDelta::delta_per_second in 1/1000 degree per second, for a
\* difference of 0.0, 0.1, ..., 94.5 degrees.
BleedAirDeltaPerSecondTable ==
    << 468, 510, 550, 587, 623, 657, 689, 719, 747, 773, 798, 821,
       843, 863, 881, 898, 914, 928, 941, 953, 964, 973, 981, 989,
       995, 1000, 1004, 1008, 1010, 1011, 1012, 1012, 1011, 1010, 1008, 1005,
       1002, 998, 993, 988, 983, 977, 970, 964, 957, 949, 941, 933,
       925, 916, 907, 898, 889, 879, 870, 860, 850, 840, 830, 820,
       810, 800, 790, 780, 770, 760, 750, 741, 731, 721, 712, 702,
       693, 684, 675, 667, 658, 650, 642, 634, 626, 619, 612, 605,
       598, 592, 586, 580, 575, 570, 565, 560, 556, 552, 548, 545,
       542, 539, 537, 535, 534, 532, 531, 531, 531, 531, 531, 532,
       534, 535, 537, 540, 542, 546, 549, 553, 557, 562, 567, 572,
       578, 584, 590, 597, 604, 612, 620, 628, 637, 646, 655, 665,
       675, 685, 696, 707, 718, 730, 742, 755, 767, 781, 794, 808,
       822, 836, 851, 866, 881, 897, 913, 929, 945, 962, 979, 996,
       1014, 1032, 1050, 1068, 1087, 1106, 1125, 1144, 1164, 1184, 1204, 1225,
       1245, 1266, 1287, 1308, 1330, 1351, 1373, 1395, 1418, 1440, 1463, 1485,
       1508, 1532, 1555, 1578, 1602, 1626, 1650, 1674, 1698, 1723, 1747, 1772,
       1797, 1822, 1847, 1872, 1897, 1923, 1948, 1974, 1999, 2025, 2051, 2077,
       2103, 2129, 2156, 2182, 2208, 2235, 2261, 2288, 2314, 2341, 2368, 2394,
       2421, 2448, 2475, 2502, 2529, 2556, 2583, 2610, 2637, 2664, 2691, 2718,
       2746, 2773, 2800, 2827, 2854, 2881, 2909, 2936, 2963, 2990, 3017, 3044,
       3071, 3098, 3126, 3153, 3180, 3207, 3234, 3261, 3288, 3314, 3341, 3368,
       3395, 3422, 3449, 3475, 3502, 3529, 3555, 3582, 3608, 3635, 3661, 3688,
       3714, 3740, 3766, 3793, 3819, 3845, 3871, 3897, 3923, 3949, 3975, 4001,
       4027, 4052, 4078, 4104, 4129, 4155, 4180, 4206, 4231, 4256, 4282, 4307,
       4332, 4357, 4383, 4408, 4433, 4458, 4483, 4508, 4532, 4557, 4582, 4607,
       4631, 4656, 4681, 4705, 4730, 4754, 4779, 4803, 4828, 4852, 4877, 4901,
       4925, 4949, 4974, 4998, 5022, 5046, 5070, 5095, 5119, 5143, 5167, 5191,
       5215, 5239, 5263, 5287, 5311, 5335, 5359, 5383, 5407, 5431, 5455, 5479,
       5503, 5527, 5551, 5576, 5600, 5624, 5648, 5672, 5696, 5720, 5744, 5768,
       5793, 5817, 5841, 5865, 5890, 5914, 5938, 5963, 5987, 6012, 6036, 6061,
       6085, 6110, 6135, 6159, 6184, 6209, 6234, 6259, 6284, 6309, 6334, 6359,
       6384, 6410, 6435, 6460, 6486, 6511, 6537, 6562, 6588, 6614, 6640, 6666,
       6692, 6718, 6744, 6770, 6796, 6823, 6849, 6876, 6902, 6929, 6956, 6983,
       7010, 7037, 7064, 7091, 7118, 7146, 7173, 7201, 7228, 7256, 7284, 7312,
       7340, 7368, 7396, 7424, 7453, 7481, 7510, 7538, 7567, 7596, 7625, 7654,
       7683, 7712, 7742, 7771, 7801, 7830, 7860, 7890, 7920, 7949, 7980, 8010,
       8040, 8070, 8101, 8131, 8162, 8192, 8223, 8254, 8285, 8316, 8347, 8378,
       8410, 8441, 8472, 8504, 8536, 8567, 8599, 8631, 8663, 8695, 8727, 8759,
       8791, 8823, 8856, 8888, 8920, 8953, 8985, 9018, 9051, 9083, 9116, 9149,
       9182, 9215, 9248, 9281, 9314, 9347, 9380, 9413, 9446, 9479, 9512, 9545,
       9579, 9612, 9645, 9678, 9712, 9745, 9778, 9812, 9845, 9878, 9911, 9945,
       9978, 10011, 10044, 10078, 10111, 10144, 10177, 10210, 10243, 10276, 10309, 10342,
       10375, 10408, 10440, 10473, 10505, 10538, 10570, 10603, 10635, 10667, 10699, 10731,
       10763, 10795, 10827, 10859, 10890, 10922, 10953, 10984, 11015, 11046, 11077, 11107,
       11138, 11168, 11198, 11228, 11258, 11288, 11318, 11347, 11376, 11405, 11434, 11463,
       11491, 11519, 11548, 11575, 11603, 11630, 11658, 11685, 11712, 11738, 11764, 11790,
       11816, 11842, 11867, 11892, 11917, 11942, 11966, 11990, 12014, 12037, 12060, 12083,
       12106, 12128, 12150, 12172, 12193, 12214, 12235, 12255, 12275, 12295, 12315, 12334,
       12352, 12371, 12389, 12406, 12424, 12441, 12457, 12473, 12489, 12505, 12520, 12534,
       12549, 12563, 12576, 12589, 12602, 12614, 12626, 12637, 12648, 12659, 12669, 12678,
       12688, 12696, 12705, 12713, 12720, 12727, 12734, 12740, 12745, 12751, 12755, 12759,
       12763, 12766, 12769, 12771, 12773, 12774, 12775, 12775, 12775, 12775, 12773, 12772,
       12769, 12767, 12763, 12760, 12755, 12750, 12745, 12739, 12733, 12726, 12719, 12711,
       12702, 12693, 12683, 12673, 12663, 12651, 12640, 12627, 12614, 12601, 12587, 12573,
       12558, 12542, 12526, 12509, 12492, 12474, 12456, 12437, 12418, 12398, 12377, 12356,
       12334, 12312, 12290, 12266, 12242, 12218, 12193, 12168, 12142, 12115, 12088, 12060,
       12032, 12004, 11974, 11945, 11914, 11883, 11852, 11820, 11788, 11755, 11721, 11687,
       11653, 11618, 11582, 11546, 11509, 11472, 11435, 11397, 11358, 11319, 11280, 11240,
       11199, 11158, 11117, 11075, 11033, 10990, 10946, 10903, 10859, 10814, 10769, 10723,
       10677, 10631, 10584, 10537, 10490, 10442, 10393, 10345, 10295, 10246, 10196, 10146,
       10095, 10044, 9993, 9941, 9889, 9837, 9784, 9731, 9678, 9625, 9571, 9517,
       9462, 9408, 9353, 9297, 9242, 9186, 9130, 9074, 9018, 8961, 8905, 8848,
       8791, 8733, 8676, 8618, 8560, 8502, 8444, 8386, 8328, 8270, 8211, 8153,
       8094, 8035, 7976, 7918, 7859, 7800, 7741, 7682, 7623, 7564, 7506, 7447,
       7388, 7329, 7271, 7212, 7153, 7095, 7037, 6979, 6921, 6863, 6805, 6747,
       6690, 6633, 6575, 6519, 6462, 6406, 6349, 6293, 6238, 6182, 6127, 6072,
       6018, 5963, 5909, 5856, 5803, 5750, 5697, 5645, 5593, 5542, 5491, 5440,
       5390, 5340, 5291, 5243, 5194, 5146, 5099, 5052, 5006, 4960, 4915, 4870,
       4826, 4783, 4740, 4697, 4655, 4614, 4574, 4534, 4494, 4456, 4418, 4380,
       4344, 4308, 4272, 4238, 4204, 4171, 4138, 4106, 4075, 4045, 4016, 3987,
       3959, 3932, 3905, 3880, 3855, 3831, 3808, 3785, 3764, 3743, 3723, 3704,
       3686, 3668, 3652, 3636, 3621, 3607, 3594, 3582, 3571, 3560, 3551, 3542,
       3534, 3527, 3521, 3516, 3511, 3508, 3505, 3503, 3502, 3502, 3503, 3505,
       3508, 3511, 3516, 3521, 3527, 3534, 3541, 3550, 3559, 3570, 3581, 3592,
       3605, 3618, 3633, 3648, 3663, 3680, 3697, 3715, 3733, 3753, 3773, 3793,
       3815, 3837, 3859, 3883, 3906, 3931, 3956, 3981, 4007, 4033, 4060, 4088,
       4115, 4144, 4172, 4201, 4230, 4260, 4290, 4320, 4350, 4380, 4411, 4442,
       4473, 4503, 4534, 4565, 4596, 4627, 4657, 4688, 4718, 4748, 4778, 4807,
       4836, 4865, 4893, 4920, 4947, 4974, 5000, 5025, 5049, 5073 >>

Lookup(pairs, key) == (CHOOSE p \in pairs : p[1] = key)[2]

(***************************************************************************)
(* Ambient convergence.                                                    *)
(***************************************************************************)
\* The temperature moved toward the target by the fraction coefficient * delta
\* of the remaining gap, and by no more than the gap.
CalculateTowardsTargetTemperature(current, target, coefficient, delta) ==
    LET gap == target - current
        part == Min(coefficient * delta, UnitsPerSecond)
        move == (Abs(gap) * part + UnitsPerSecond - 1) \div UnitsPerSecond
    IN  IF gap >= 0 THEN current + move ELSE current - move

ApuAmbientCoefficient == 1

\* As CalculateTowardsAmbientEgt, the coefficient with the wrong sign.
CalculateAwayFromAmbientEgt(current_egt, delta) ==
    CalculateTowardsTargetTemperature(current_egt, ambient,
                                      -ApuAmbientCoefficient, delta)


CalculateTowardsAmbientEgt(current_egt, delta) ==
    CalculateTowardsTargetTemperature(current_egt, ambient,
                                      ApuAmbientCoefficient, delta)

(***************************************************************************)
(* Thermal load of the bleed air and of the generator while running.       *)
(***************************************************************************)
BleedAirBaseMax == 900

BleedAirUsageEgtDeltaNew ==
    { [current |-> 0, target |-> 0,
       max |-> (BleedAirBaseMax * (950 + r)) \div 1000, min |-> 0] :
      r \in BleedAirDraws }

BleedAirDeltaPerSecond(self) ==
    BleedAirDeltaPerSecondTable[Abs(self.current - self.target) + 1]

\* As BleedAirUsageEgtDeltaUpdate, without .max(self.min).min(self.max).
BleedAirUsageEgtDeltaUpdateUnclamped(self, delta, apu_bleed_is_used) ==
    LET target == IF apu_bleed_is_used THEN self.max ELSE self.min
        aimed == [self EXCEPT !.target = target]
        change == (BleedAirDeltaPerSecond(aimed) * delta + 50 * UnitsPerSecond)
                  \div (100 * UnitsPerSecond)
        moved == IF self.current = target THEN self.current
                 ELSE IF self.current > target THEN self.current - change
                 ELSE self.current + change
    IN  [aimed EXCEPT !.current = moved]

BleedAirUsageEgtDeltaUpdate(self, delta, apu_bleed_is_used) ==
    LET target == IF apu_bleed_is_used THEN self.max ELSE self.min
        aimed == [self EXCEPT !.target = target]
        change == (BleedAirDeltaPerSecond(aimed) * delta
                   + 50 * UnitsPerSecond) \div (100 * UnitsPerSecond)
        moved == IF self.current = target THEN self.current
                 ELSE IF self.current > target THEN self.current - change
                 ELSE self.current + change
    IN  [aimed EXCEPT !.current = Min(Max(moved, self.min), self.max)]

\* The offset in 1/100 degree.
BleedAirEgtDelta(self) == self.current * 10

SecondsToReachTarget == 10

\* base_egt_delta_per_second is kept in 1/1000 degree per second.
ApuGenUsageEgtDeltaNew ==
    { [time |-> 0,
       base_egt_delta_per_second |-> ((10 + r) * 1000) \div SecondsToReachTarget] :
      r \in ApuGenDraws }

\* As ApuGenUsageEgtDeltaUpdate, the time of use kept while the generator is
\* not used.
ApuGenUsageEgtDeltaUpdateKeepsTime(self, delta, apu_gen_is_used) ==
    [self EXCEPT !.time =
        IF apu_gen_is_used
        THEN Min(self.time + delta, SecondsToReachTarget * UnitsPerSecond)
        ELSE self.time]

\* As ApuGenUsageEgtDeltaUpdate, the time saturating a second late.
ApuGenUsageEgtDeltaUpdateSaturatesLate(self, delta, apu_gen_is_used) ==
    [self EXCEPT !.time =
        IF apu_gen_is_used
        THEN Min(self.time + delta, (SecondsToReachTarget + 1) * UnitsPerSecond)
        ELSE Max(self.time - delta, 0)]

ApuGenUsageEgtDeltaUpdate(self, delta, apu_gen_is_used) ==
    [self EXCEPT !.time =
        IF apu_gen_is_used
        THEN Min(self.time + delta, SecondsToReachTarget * UnitsPerSecond)
        ELSE Max(self.time - delta, 0)]

ApuGenEgtDelta(self) ==
    (self.time * self.base_egt_delta_per_second) \div (10 * UnitsPerSecond)

(***************************************************************************)
(* The four turbine states.                                                *)
(***************************************************************************)
ShutdownNew == [state |-> "Shutdown", egt |-> 0]

ShutdownNewWithEgt(egt) == [state |-> "Shutdown", egt |-> egt]

StartingNew(egt) ==
    [state |-> "Starting", since |-> 0, n |-> 0, egt |-> egt,
     ignore_calculated_egt |-> TRUE]

BaseEgtFloor == 34000

\* As RunningNew, the bleed air offset starting at its maximum.
RunningNewAtFullBleed(egt) ==
    { [state |-> "Running", egt |-> egt,
       base_egt |-> BaseEgtFloor + 100 * r,
       base_egt_deviation |-> egt - (BaseEgtFloor + 100 * r),
       bleed_air_usage |-> [b EXCEPT !.current = b.max],
       apu_gen_usage |-> g] :
      r \in BaseEgtDraws, b \in BleedAirUsageEgtDeltaNew,
      g \in ApuGenUsageEgtDeltaNew }

RunningNew(egt) ==
    { [state |-> "Running", egt |-> egt,
       base_egt |-> BaseEgtFloor + 100 * r,
       base_egt_deviation |-> egt - (BaseEgtFloor + 100 * r),
       bleed_air_usage |-> b, apu_gen_usage |-> g] :
      r \in BaseEgtDraws, b \in BleedAirUsageEgtDeltaNew,
      g \in ApuGenUsageEgtDeltaNew }

StoppingNew(egt, n) ==
    [state |-> "Stopping", since |-> 0, base_temperature |-> egt,
     n |-> n, egt |-> egt]

\* As TurbineN, Running reporting 1 percent for the ratio 1.
TurbineNRunningOnePercent(self) ==
    CASE self.state = "Shutdown" -> 0
      [] self.state = "Running" -> 1000
      [] OTHER -> self.n

\* Turbine::n, Turbine::egt and Turbine::state of the live variant.
TurbineN(self) ==
    CASE self.state = "Shutdown" -> 0
      [] self.state = "Running" -> Percent100
      [] OTHER -> self.n

TurbineEgt(self) == self.egt

TurbineState(self) == self.state

ShutdownUpdate(self, delta, should_start) ==
    LET cooled == [self EXCEPT !.egt = CalculateTowardsAmbientEgt(self.egt, delta)]
    IN  IF should_start THEN {StartingNew(cooled.egt)} ELSE {cooled}

StartIgnitionAfter == 3
StartingTimeLimit == 91

\* As StartingCalculateN, without .min(100.).
StartingCalculateNUnclamped(self) ==
    LET ignition_turned_on == Min(self.since - StartIgnitionAfter, StartingTimeLimit)
    IN  IF ignition_turned_on > 0
        THEN Max(StartingNTable[ignition_turned_on], 0)
        ELSE 0


\* As StartingCalculateN, without START_IGNITION_AFTER_SECONDS.
StartingCalculateNWithoutIgnitionDelay(self) ==
    LET ignition_turned_on == Min(self.since, StartingTimeLimit)
    IN  IF ignition_turned_on > 0
        THEN Max(Min(StartingNTable[ignition_turned_on], Percent100), 0)
        ELSE 0

StartingCalculateN(self) ==
    LET ignition_turned_on == Min(self.since - StartIgnitionAfter, StartingTimeLimit)
    IN  IF ignition_turned_on > 0
        THEN Max(Min(StartingNTable[ignition_turned_on], Percent100), 0)
        ELSE 0

\* As StartingCalculateEgt, the latch decided anew on every tick.
StartingCalculateEgtWithoutMemory(self, delta) ==
    LET temperature == Lookup(StartingEgtByN, self.n)
        towards_ambient_egt == CalculateTowardsAmbientEgt(self.egt, delta)
        ignore == ~(temperature > towards_ambient_egt)
    IN  [self EXCEPT !.ignore_calculated_egt = ignore,
                     !.egt = IF ignore THEN towards_ambient_egt ELSE temperature]

\* The state with the latch and the EGT of this tick.
StartingCalculateEgt(self, delta) ==
    LET temperature == Lookup(StartingEgtByN, self.n)
        towards_ambient_egt == CalculateTowardsAmbientEgt(self.egt, delta)
        ignore == IF temperature > towards_ambient_egt
                  THEN FALSE ELSE self.ignore_calculated_egt
    IN  [self EXCEPT !.ignore_calculated_egt = ignore,
                     !.egt = IF ignore THEN towards_ambient_egt ELSE temperature]

\* As StartingUpdate, the speed examined before the stop request.
StartingUpdateChecksSpeedFirst(self, delta, should_stop) ==
    LET timed == [self EXCEPT !.since = self.since + delta]
        sped == [timed EXCEPT !.n = StartingCalculateN(timed)]
        next == StartingCalculateEgt(sped, delta)
    IN  IF next.n = Percent100 THEN RunningNew(next.egt)
        ELSE IF should_stop THEN {StoppingNew(next.egt, next.n)}
        ELSE {next}

StartingUpdate(self, delta, should_stop) ==
    LET timed == [self EXCEPT !.since = self.since + delta]
        sped == [timed EXCEPT !.n = StartingCalculateN(timed)]
        next == StartingCalculateEgt(sped, delta)
    IN  IF should_stop THEN {StoppingNew(next.egt, next.n)}
        ELSE IF next.n = Percent100 THEN RunningNew(next.egt)
        ELSE {next}

DeviationPerSecond == 100

\* As RunningCalculateEgt, without .min(self.base_egt_deviation).
RunningCalculateEgtWithoutFloor(self, delta, apu_gen_is_used, apu_bleed_is_used) ==
    LET deviation == self.base_egt_deviation
                     - (delta * DeviationPerSecond) \div UnitsPerSecond
        gen == ApuGenUsageEgtDeltaUpdate(self.apu_gen_usage, delta, apu_gen_is_used)
        bleed == BleedAirUsageEgtDeltaUpdate(self.bleed_air_usage, delta,
                                             apu_bleed_is_used)
    IN  [self EXCEPT !.base_egt_deviation = deviation,
                     !.apu_gen_usage = gen,
                     !.bleed_air_usage = bleed,
                     !.egt = self.base_egt + deviation
                             + ApuGenEgtDelta(gen) + BleedAirEgtDelta(bleed)]

RunningCalculateEgt(self, delta, apu_gen_is_used, apu_bleed_is_used) ==
    LET deviation == self.base_egt_deviation
                     - Min((delta * DeviationPerSecond) \div UnitsPerSecond,
                           self.base_egt_deviation)
        gen == ApuGenUsageEgtDeltaUpdate(self.apu_gen_usage, delta, apu_gen_is_used)
        bleed == BleedAirUsageEgtDeltaUpdate(self.bleed_air_usage, delta,
                                             apu_bleed_is_used)
    IN  [self EXCEPT !.base_egt_deviation = deviation,
                     !.apu_gen_usage = gen,
                     !.bleed_air_usage = bleed,
                     !.egt = self.base_egt + deviation
                             + ApuGenEgtDelta(gen) + BleedAirEgtDelta(bleed)]

\* As RunningUpdate, a stop request shutting the turbine down at once.
RunningUpdateSkipsStopping(self, delta, apu_bleed_is_used, apu_gen_is_used, should_stop) ==
    LET next == RunningCalculateEgt(self, delta, apu_gen_is_used, apu_bleed_is_used)
    IN  IF should_stop THEN {ShutdownNewWithEgt(next.egt)} ELSE {next}

RunningUpdate(self, delta, apu_bleed_is_used, apu_gen_is_used, should_stop) ==
    LET next == RunningCalculateEgt(self, delta, apu_gen_is_used, apu_bleed_is_used)
    IN  IF should_stop THEN {StoppingNew(next.egt, Percent100)} ELSE {next}

StoppingTimeLimit == 99

\* As StoppingCalculateN, without .max(0.).
StoppingCalculateNUnclamped(self) ==
    LET since == Min(self.since, StoppingTimeLimit)
    IN  Min(StoppingNTable[since + 1], Percent100)

StoppingCalculateN(self) ==
    LET since == Min(self.since, StoppingTimeLimit)
    IN  Max(Min(StoppingNTable[since + 1], Percent100), 0)

StoppingCalculateEgtDelta(self) == Lookup(StoppingEgtDeltaByN, self.n)

\* As StoppingUpdate, shutting down with ShutdownAps3200Turbine::new().
StoppingUpdateForgetsEgt(self, delta) ==
    LET timed == [self EXCEPT !.since = self.since + delta]
        sped == [timed EXCEPT !.n = StoppingCalculateN(timed)]
    IN  IF sped.n = 0 THEN {ShutdownNew}
        ELSE {[sped EXCEPT !.egt = sped.base_temperature
                                   + StoppingCalculateEgtDelta(sped)]}

StoppingUpdate(self, delta) ==
    LET timed == [self EXCEPT !.since = self.since + delta]
        sped == [timed EXCEPT !.n = StoppingCalculateN(timed)]
        next == [sped EXCEPT !.egt = sped.base_temperature
                                     + StoppingCalculateEgtDelta(sped)]
    IN  IF next.n = 0 THEN {ShutdownNewWithEgt(next.egt)} ELSE {next}

(***************************************************************************)
(* The periodic jitter sampler of the generator's voltage.                 *)
(***************************************************************************)
\* A sampler holds one of its candidate values from the start.
TimedRandomNew(interval, values) ==
    { [interval |-> interval, values |-> values, elapsed |-> 0,
       current_value |-> values[i]] : i \in DOMAIN values }

\* Accumulates the elapsed time; once it reaches the interval, draws one new
\* value and starts accumulating again.
TimedRandomUpdate(self, delta) ==
    IF self.elapsed + delta >= self.interval
    THEN { [self EXCEPT !.elapsed = 0, !.current_value = self.values[i]] :
           i \in DOMAIN self.values }
    ELSE { [self EXCEPT !.elapsed = self.elapsed + delta] }

TimedRandomCurrentValue(self) == self.current_value

(***************************************************************************)
(* The generator.                                                          *)
(***************************************************************************)
ApuGenPoweredN == 84000

\* The value standing for a panic of the formula.
Panic == -1

PoweredCurrent == 78260

RandomVoltageInterval == 1

RandomVoltageValues == <<114, 115, 115, 115, 115>>

\* The writer of an electrical element: it names what it writes after the
\* element.
ElectricalStateWriterNew(element_id) == [element_id |-> element_id]

\* As Aps3200ApuGeneratorNew, the generator constructed at its rated frequency.
Aps3200ApuGeneratorNewAtRatedFrequency(number) ==
    { [number |-> number,
       writer |-> ElectricalStateWriterNew("APU_GEN_" \o ToString(number)),
       output |-> "None", random_voltage |-> r,
       current |-> 0, potential |-> 0, frequency |-> 400000, panicked |-> FALSE] :
      r \in TimedRandomNew(RandomVoltageInterval * UnitsPerSecond,
                           RandomVoltageValues) }

Aps3200ApuGeneratorNew(number) ==
    { [number |-> number,
       writer |-> ElectricalStateWriterNew("APU_GEN_" \o ToString(number)),
       output |-> "None", random_voltage |-> r,
       current |-> 0, potential |-> 0, frequency |-> 0, panicked |-> FALSE] :
      r \in TimedRandomNew(RandomVoltageInterval * UnitsPerSecond,
                           RandomVoltageValues) }

\* Potential::is_powered: the output has a source.
IsPowered(self) == self.output # "None"

\* As CalculatePotential, 85 percent itself still at 105 V.
CalculatePotentialLateSampler(self, n) ==
    IF n < ApuGenPoweredN THEN Panic
    ELSE IF n <= 85000 THEN 105
    ELSE TimedRandomCurrentValue(self.random_voltage)

CalculatePotential(self, n) ==
    IF n < ApuGenPoweredN THEN Panic
    ELSE IF n < 85000 THEN 105
    ELSE TimedRandomCurrentValue(self.random_voltage)

\* As CalculateFrequency, the ramp curve left at 99 percent.
CalculateFrequencyEarlyPlateau(self, n) ==
    IF n < ApuGenPoweredN THEN Panic
    ELSE IF n < 99000 THEN Lookup(RampFrequencyByN, n)
    ELSE 400000

CalculateFrequency(self, n) ==
    IF n < ApuGenPoweredN THEN Panic
    ELSE IF n < Percent100 THEN Lookup(RampFrequencyByN, n)
    ELSE 400000

\* As GeneratorOutput, the emergency shutdown ignored.
GeneratorOutputIgnoresEmergency(self, n, is_emergency_shutdown) ==
    IF n < ApuGenPoweredN THEN "None" ELSE "ApuGenerator"

\* As GeneratorOutput, powered from 83 percent.
GeneratorOutputPoweredEarly(self, n, is_emergency_shutdown) ==
    IF is_emergency_shutdown \/ n < 83000
    THEN "None" ELSE "ApuGenerator"

\* As GeneratorOutput, the output switched on where the voltage starts to
\* follow the sampler.
GeneratorOutputPoweredFrom85(self, n, is_emergency_shutdown) ==
    IF is_emergency_shutdown \/ n < 85000 THEN "None" ELSE "ApuGenerator"

GeneratorOutput(self, n, is_emergency_shutdown) ==
    IF is_emergency_shutdown \/ n < ApuGenPoweredN
    THEN "None" ELSE "ApuGenerator"

\* The generator after update with one sampler outcome; a panic of a formula
\* ends the update there.
GeneratorUpdated(self, sampled, n, is_emergency_shutdown) ==
    LET switched == [self EXCEPT !.random_voltage = sampled,
                                 !.output = GeneratorOutput(self, n, is_emergency_shutdown)]
        loaded == [switched EXCEPT
                      !.current = IF IsPowered(switched) THEN PoweredCurrent ELSE 0]
        potential == IF IsPowered(loaded) THEN CalculatePotential(loaded, n) ELSE 0
        frequency == IF IsPowered(loaded) THEN CalculateFrequency(loaded, n) ELSE 0
    IN  IF potential = Panic THEN [loaded EXCEPT !.panicked = TRUE]
        ELSE IF frequency = Panic
        THEN [loaded EXCEPT !.potential = potential, !.panicked = TRUE]
        ELSE [loaded EXCEPT !.potential = potential, !.frequency = frequency]

GeneratorUpdate(self, delta, n, is_emergency_shutdown) ==
    { GeneratorUpdated(self, sampled, n, is_emergency_shutdown) :
      sampled \in TimedRandomUpdate(self.random_voltage, delta) }

\* As PotentialNormal, the potential taken for normal whenever there is output.
PotentialNormalWhenPowered(self) == IsPowered(self)

PotentialNormal(self) == self.potential >= 110 /\ self.potential <= 120

FrequencyNormal(self) == self.frequency >= 390000 /\ self.frequency <= 410000

Load(self) == 0

LoadNormal(self) == TRUE

\* ElectricalStateWriter::write_alternating_with_load: the six values of the
\* element, by name.
WriteAlternatingWithLoad(writer, source) ==
    LET name(metric) == "ELEC_" \o writer.element_id \o "_" \o metric
    IN  (name("POTENTIAL") :> source.potential)
        @@ (name("POTENTIAL_NORMAL") :> PotentialNormal(source))
        @@ (name("FREQUENCY") :> source.frequency)
        @@ (name("FREQUENCY_NORMAL") :> FrequencyNormal(source))
        @@ (name("LOAD") :> Load(source))
        @@ (name("LOAD_NORMAL") :> LoadNormal(source))

Write(self) == WriteAlternatingWithLoad(self.writer, self)

(***************************************************************************)
(* The turbine: each tick replaces it by its update.                       *)
(***************************************************************************)
\* What a specification does not construct.
Absent == [absent |-> TRUE]

Init ==
    /\ turbine = ShutdownNew
    /\ ambient \in Ambients
    /\ used = 0
    /\ last = [from |-> "None", request |-> "none"]
    /\ generator = Absent
    /\ gen_input = Absent
    /\ probe = Absent

GeneratorStep(delta, n, is_emergency_shutdown) ==
    /\ ~generator.panicked
    /\ generator' \in GeneratorUpdate(generator, delta, n, is_emergency_shutdown)
    /\ gen_input' = [updated |-> TRUE, n |-> n,
                     is_emergency_shutdown |-> is_emergency_shutdown]

ShutdownTick(delta, should_start) ==
    /\ turbine.state = "Shutdown"
    /\ turbine' \in ShutdownUpdate(turbine, delta, should_start)
    /\ last' = [from |-> "Shutdown",
                request |-> IF should_start THEN "start" ELSE "none"]
    /\ UNCHANGED <<ambient, used, generator, gen_input, probe>>

StartingTick(delta, should_stop) ==
    /\ turbine.state = "Starting"
    /\ turbine' \in StartingUpdate(turbine, delta, should_stop)
    /\ last' = [from |-> "Starting",
                request |-> IF should_stop THEN "stop" ELSE "none"]
    /\ UNCHANGED <<ambient, used, generator, gen_input, probe>>

\* used counts the ticks with load of the latest run: it starts anew on the
\* first tick in Running and is kept once the run is over.
RunningTick(delta, apu_bleed_is_used, apu_gen_is_used, should_stop) ==
    /\ turbine.state = "Running"
    /\ LET before == IF last.from = "Running" THEN used ELSE 0
           load == apu_bleed_is_used \/ apu_gen_is_used
       IN  /\ load => before < MaxUsedTicks
           /\ used' = IF load THEN before + 1 ELSE before
    /\ turbine' \in RunningUpdate(turbine, delta, apu_bleed_is_used,
                                  apu_gen_is_used, should_stop)
    /\ last' = [from |-> "Running",
                request |-> IF should_stop THEN "stop" ELSE "none"]
    /\ UNCHANGED <<ambient, generator, gen_input, probe>>

StoppingTick(delta) ==
    /\ turbine.state = "Stopping"
    /\ turbine' \in StoppingUpdate(turbine, delta)
    /\ last' = [from |-> "Stopping", request |-> "none"]
    /\ UNCHANGED <<ambient, used, generator, gen_input, probe>>

Next ==
    \/ \E delta \in Deltas, should_start \in BOOLEAN :
           ShutdownTick(delta, should_start)
    \/ \E delta \in Deltas, should_stop \in BOOLEAN :
           StartingTick(delta, should_stop)
    \/ \E delta \in Deltas, b \in BOOLEAN, g \in BOOLEAN, should_stop \in BOOLEAN :
           RunningTick(delta, b, g, should_stop)
    \/ \E delta \in Deltas : StoppingTick(delta)

Spec == Init /\ [][Next]_vars

(***************************************************************************)
(* The start sequence tick by tick: short ticks and no stop request, from  *)
(* Shutdown until Running is entered.                                      *)
(***************************************************************************)
StartInit ==
    /\ turbine = ShutdownNew
    /\ ambient \in FineAmbients
    /\ used = 0
    /\ last = [from |-> "None", request |-> "none"]
    /\ generator = Absent
    /\ gen_input = Absent
    /\ probe = Absent

StartNext ==
    \/ \E delta \in FineDeltas, should_start \in BOOLEAN :
           ShutdownTick(delta, should_start)
    \/ \E delta \in FineDeltas : StartingTick(delta, FALSE)

StartSpec == StartInit /\ [][StartNext]_vars

\* The host ticks the unit on every frame.
StartFairSpec == StartSpec /\ WF_vars(StartNext)

(***************************************************************************)
(* The start sequence in cold, warm and very hot air, the last above the   *)
(* EGT at which a start ends.                                              *)
(***************************************************************************)
LatchAmbients == FineAmbients \cup {45000}

LatchInit ==
    /\ turbine = ShutdownNew
    /\ ambient \in LatchAmbients
    /\ used = 0
    /\ last = [from |-> "None", request |-> "none"]
    /\ generator = Absent
    /\ gen_input = Absent
    /\ probe = Absent

LatchSpec == LatchInit /\ [][StartNext]_vars

(***************************************************************************)
(* Start sequences one after another: a start on short ticks or a long     *)
(* one, abandoned on a stop request at any tick, the turbine stopped and   *)
(* started again.                                                          *)
(***************************************************************************)
\* The short ticks of a start and the long one.
EpisodeDeltas == FineDeltas \cup {LongDelta}

EpisodeNext ==
    \/ \E delta \in EpisodeDeltas, should_start \in BOOLEAN :
           ShutdownTick(delta, should_start)
    \/ \E delta \in EpisodeDeltas, should_stop \in BOOLEAN :
           StartingTick(delta, should_stop)
    \/ StoppingTick(LongDelta)

EpisodeSpec == StartInit /\ [][EpisodeNext]_vars

(***************************************************************************)
(* The turbine started and left running: no stop request.                  *)
(***************************************************************************)
\* The ticks of the turbine left running: the shortest of Deltas and the long
\* one.
RunDeltas == {TickStep, LongDelta}

RunNext ==
    \/ \E delta \in Deltas, should_start \in BOOLEAN :
           ShutdownTick(delta, should_start)
    \/ \E delta \in Deltas : StartingTick(delta, FALSE)
    \/ \E delta \in RunDeltas, b \in BOOLEAN, g \in BOOLEAN :
           RunningTick(delta, b, g, FALSE)

RunSpec == Init /\ [][RunNext]_vars

\* The host ticks the unit on every frame.
RunFairSpec == RunSpec /\ WF_vars(RunNext)

(***************************************************************************)
(* The unit: on every tick the turbine is replaced by its update and the   *)
(* generator is updated with the N of the turbine and the emergency        *)
(* shutdown flag.                                                          *)
(***************************************************************************)
GeneratorNumber == 1

\* As TurbineUpdate, a start request taken while stopping.
TurbineUpdateRestartsWhileStopping(self, delta, apu_bleed_is_used, apu_gen_is_used, should_start, should_stop) ==
    CASE self.state = "Shutdown" -> ShutdownUpdate(self, delta, should_start)
      [] self.state = "Starting" -> StartingUpdate(self, delta, should_stop)
      [] self.state = "Running" ->
            RunningUpdate(self, delta, apu_bleed_is_used, apu_gen_is_used,
                          should_stop)
      [] self.state = "Stopping" ->
            IF should_start THEN {StartingNew(self.egt)}
            ELSE StoppingUpdate(self, delta)

\* Turbine::update of the live variant.
TurbineUpdate(self, delta, apu_bleed_is_used, apu_gen_is_used, should_start, should_stop) ==
    CASE self.state = "Shutdown" -> ShutdownUpdate(self, delta, should_start)
      [] self.state = "Starting" -> StartingUpdate(self, delta, should_stop)
      [] self.state = "Running" ->
            RunningUpdate(self, delta, apu_bleed_is_used, apu_gen_is_used,
                          should_stop)
      [] self.state = "Stopping" -> StoppingUpdate(self, delta)

\* A tick of the turbine alone, the controller's request kept in last.
TurbineTick(delta, apu_bleed_is_used, apu_gen_is_used, request) ==
    /\ turbine.state = "Running" => ~(apu_bleed_is_used \/ apu_gen_is_used)
    /\ turbine' \in TurbineUpdate(turbine, delta, apu_bleed_is_used,
                                  apu_gen_is_used, request = "start",
                                  request = "stop")
    /\ last' = [from |-> turbine.state, request |-> request]
    /\ UNCHANGED <<ambient, used, generator, gen_input, probe>>

Requests == {"none", "start", "stop"}

\* The turbine without load, with every request and usage flag while it stops.
StopNext ==
    \/ \E delta \in Deltas, request \in {"none", "start"} :
           turbine.state = "Shutdown" /\ TurbineTick(delta, FALSE, FALSE, request)
    \/ \E delta \in Deltas, request \in {"none", "stop"} :
           turbine.state \in {"Starting", "Running"}
           /\ TurbineTick(delta, FALSE, FALSE, request)
    \/ \E delta \in Deltas, b \in BOOLEAN, g \in BOOLEAN, request \in Requests :
           turbine.state = "Stopping" /\ TurbineTick(delta, b, g, request)

StopSpec == Init /\ [][StopNext]_vars

ApuInit ==
    /\ turbine = ShutdownNew
    /\ ambient \in Ambients
    /\ used = 0
    /\ last = [from |-> "None", request |-> "none", entered_n |-> 0]
    /\ generator \in Aps3200ApuGeneratorNew(GeneratorNumber)
    /\ gen_input = [updated |-> FALSE, n |-> 0, is_emergency_shutdown |-> FALSE]
    /\ probe = Absent

\* The short ticks of the unit and the long one.
ApuDeltas == FineDeltas \cup {LongDelta}

\* last.entered_n is the N with which the turbine entered its present state.
ApuTick(delta, apu_bleed_is_used, apu_gen_is_used, request, is_emergency_shutdown) ==
    /\ (turbine.state = "Running" /\ (apu_bleed_is_used \/ apu_gen_is_used))
          => used < MaxUsedTicks
    /\ turbine' \in TurbineUpdate(turbine, delta, apu_bleed_is_used,
                                  apu_gen_is_used, request = "start",
                                  request = "stop")
    /\ GeneratorStep(delta, TurbineN(turbine'), is_emergency_shutdown)
    /\ used' = IF turbine'.state # "Running" THEN 0
               ELSE IF turbine.state = "Running"
                       /\ (apu_bleed_is_used \/ apu_gen_is_used)
               THEN used + 1
               ELSE used
    /\ last' = [from |-> turbine.state, request |-> request,
                entered_n |-> IF turbine'.state # turbine.state
                              THEN TurbineN(turbine')
                              ELSE last.entered_n]
    /\ UNCHANGED <<ambient, probe>>

\* The unit at rest between two starts for at least a tick of Deltas, started
\* and stopped on short ticks, and left running once it runs.
ApuNext ==
    \/ \E delta \in Deltas, request \in {"none", "start"}, e \in BOOLEAN :
           turbine.state = "Shutdown" /\ ApuTick(delta, FALSE, FALSE, request, e)
    \/ \E delta \in ApuDeltas, request \in {"none", "stop"}, e \in BOOLEAN :
           turbine.state = "Starting" /\ ApuTick(delta, FALSE, FALSE, request, e)
    \/ \E delta \in Deltas, e \in BOOLEAN :
           turbine.state = "Running" /\ ApuTick(delta, FALSE, FALSE, "none", e)
    \/ \E delta \in ApuDeltas, e \in BOOLEAN :
           turbine.state = "Stopping" /\ ApuTick(delta, FALSE, FALSE, "none", e)

ApuSpec == ApuInit /\ [][ApuNext]_vars

(***************************************************************************)
(* The generator on its own: updates with any N and flag, and direct       *)
(* evaluations of its two formulas.                                        *)
(***************************************************************************)
GenInit ==
    /\ turbine = Absent
    /\ ambient \in Ambients
    /\ used = 0
    /\ last = [from |-> "None", request |-> "none"]
    /\ generator \in Aps3200ApuGeneratorNew(GeneratorNumber)
    /\ gen_input = [updated |-> FALSE, n |-> 0, is_emergency_shutdown |-> FALSE]
    /\ probe = [evaluated |-> FALSE, n |-> 0, potential |-> 0, frequency |-> 0]

\* The N handed to the generator, around each threshold of its formulas.
NSamples == {0, 50000, 83999, 84000, 84500, 85000, 90000, 99999, 100000, 120000}

GeneratorTick(delta, n, is_emergency_shutdown) ==
    /\ GeneratorStep(delta, n, is_emergency_shutdown)
    /\ UNCHANGED <<turbine, ambient, used, last, probe>>

Evaluate(n) ==
    /\ probe' = [evaluated |-> TRUE, n |-> n,
                 potential |-> CalculatePotential(generator, n),
                 frequency |-> CalculateFrequency(generator, n)]
    /\ UNCHANGED <<turbine, ambient, used, last, generator, gen_input>>

GenNext ==
    \/ \E delta \in FineDeltas, n \in NSamples, e \in BOOLEAN :
           GeneratorTick(delta, n, e)
    \/ \E n \in NSamples : Evaluate(n)

GenSpec == GenInit /\ [][GenNext]_vars

(***************************************************************************)
(* The two usage models of Running on their own: one of them, as           *)
(* constructed, updated with any tick and any sequence of its flag.  probe *)
(* holds the model together with the inputs of its latest update.          *)
(***************************************************************************)
UsageInit ==
    /\ turbine = Absent
    /\ ambient \in Ambients
    /\ used = 0
    /\ last = [from |-> "None", request |-> "none"]
    /\ generator = Absent
    /\ gen_input = Absent
    /\ probe \in { [kind |-> "bleed_air_usage", usage |-> u, updated |-> FALSE,
                     delta |-> 0, in_use |-> FALSE] :
                    u \in BleedAirUsageEgtDeltaNew }
                 \cup
                 { [kind |-> "apu_gen_usage", usage |-> u, updated |-> FALSE,
                     delta |-> 0, in_use |-> FALSE] :
                    u \in ApuGenUsageEgtDeltaNew }

\* Every tick of the turbine's specifications.
UsageDeltas == FineDeltas \cup Deltas

BleedAirUsageTick(delta, apu_bleed_is_used) ==
    /\ probe.kind = "bleed_air_usage"
    /\ probe' = [probe EXCEPT
                   !.usage = BleedAirUsageEgtDeltaUpdate(probe.usage, delta,
                                                         apu_bleed_is_used),
                   !.updated = TRUE, !.delta = delta,
                   !.in_use = apu_bleed_is_used]
    /\ UNCHANGED <<turbine, ambient, used, last, generator, gen_input>>

ApuGenUsageTick(delta, apu_gen_is_used) ==
    /\ probe.kind = "apu_gen_usage"
    /\ probe' = [probe EXCEPT
                   !.usage = ApuGenUsageEgtDeltaUpdate(probe.usage, delta,
                                                       apu_gen_is_used),
                   !.updated = TRUE, !.delta = delta,
                   !.in_use = apu_gen_is_used]
    /\ UNCHANGED <<turbine, ambient, used, last, generator, gen_input>>

UsageNext ==
    \/ \E delta \in UsageDeltas, apu_bleed_is_used \in BOOLEAN :
           BleedAirUsageTick(delta, apu_bleed_is_used)
    \/ \E delta \in UsageDeltas, apu_gen_is_used \in BOOLEAN :
           ApuGenUsageTick(delta, apu_gen_is_used)

UsageSpec == UsageInit /\ [][UsageNext]_vars

(***************************************************************************)
(* Properties of the turbine.                                              *)
(***************************************************************************)
TurbineChanges ==
    { <<"Shutdown", "Starting">>, <<"Starting", "Stopping">>,
      <<"Starting", "Running">>, <<"Running", "Stopping">>,
      <<"Stopping", "Shutdown">> }

\* C1: a tick leaves the turbine in its state or takes one of Shutdown->Starting,
\* Starting->Stopping, Starting->Running, Running->Stopping, Stopping->Shutdown.
C1_OnlyListedChanges ==
    [][turbine'.state = turbine.state
       \/ <<turbine.state, turbine'.state>> \in TurbineChanges]_vars

\* Every listed change has been taken: the turbine is back in Shutdown from
\* Stopping.
C1_Witness ==
    /\ turbine.state = "Shutdown"
    /\ last.from = "Stopping"
    /\ turbine.egt > ambient

\* C2: a tick of a shut down turbine without a start request leaves it shut
\* down with N = 0 and its EGT no farther from the ambient temperature.
C2_ShutdownCoolsTowardsAmbient ==
    [][\A delta \in FineDeltas :
          ShutdownTick(delta, FALSE) =>
             /\ turbine'.state = "Shutdown"
             /\ TurbineN(turbine') = 0
             /\ Abs(turbine'.egt - ambient) <= Abs(turbine.egt - ambient)]_vars

\* A second tick in Shutdown, with the EGT between its first value and the
\* ambient temperature.
C2_Witness ==
    /\ turbine.state = "Shutdown"
    /\ last = [from |-> "Shutdown", request |-> "none"]
    /\ turbine.egt # 0
    /\ turbine.egt # ambient

\* C3: without a stop request N never decreases from Shutdown through
\* Starting, a starting turbine reaches Running, and no tick ends in Starting
\* with N at 100 percent.
C3_StartReachesRunning ==
    /\ [][TurbineN(turbine') >= TurbineN(turbine)]_vars
    /\ (turbine.state = "Starting") ~> (turbine.state = "Running")
    /\ [](turbine.state = "Starting" => turbine.n < Percent100)

\* Running entered from Starting.
C3_Witness ==
    /\ turbine.state = "Running"
    /\ last = [from |-> "Starting", request |-> "none"]
    /\ TurbineN(turbine) = Percent100

\* C4: a stop request in Running enters Stopping with N = 100 percent and an
\* EGT that Running computes on a tick; in Stopping the elapsed time grows with every tick and
\* stays below the time limit of the curve, N being above 0; the tick on which
\* N is 0 enters Shutdown with the EGT computed on that tick.
C4_StopReachesShutdown ==
    /\ [][(turbine.state = "Running" /\ last'.request = "stop") =>
             /\ turbine'.state = "Stopping"
             /\ turbine'.n = Percent100
             /\ turbine'.since = 0
             /\ turbine'.base_temperature = turbine'.egt
             /\ \E delta \in Deltas, b \in BOOLEAN, g \in BOOLEAN :
                   turbine'.egt = RunningCalculateEgt(turbine, delta, g, b).egt]_vars
    /\ [][turbine.state = "Stopping" /\ turbine'.state = "Stopping" =>
             turbine'.since > turbine.since]_vars
    /\ [](turbine.state = "Stopping" =>
             /\ turbine.since < StoppingTimeLimit
             /\ turbine.since > 0 => turbine.n > 0)
    /\ [][turbine.state = "Stopping" /\ turbine'.state # "Stopping" =>
             /\ turbine'.state = "Shutdown"
             /\ TurbineN(turbine') = 0
             /\ turbine'.egt = turbine.base_temperature
                               + Lookup(StoppingEgtDeltaByN, 0)]_vars

\* Stopping just entered from Running.
C4_Witness ==
    /\ turbine.state = "Stopping"
    /\ last = [from |-> "Running", request |-> "stop"]
    /\ turbine.n = Percent100
    /\ turbine.since = 0
    /\ turbine.egt = turbine.base_temperature

\* C5: a tick that begins in Starting or Running with a stop request ends in
\* Stopping.
C5_StopTakesPrecedence ==
    (last.from \in {"Starting", "Running"} /\ last.request = "stop")
        => turbine.state = "Stopping"

\* Starting stopped on the tick on which its N reached 100 percent.
C5_Witness ==
    /\ turbine.state = "Stopping"
    /\ last = [from |-> "Starting", request |-> "stop"]
    /\ turbine.n = Percent100

\* C6: N is within [0, 100] percent, 0 in Shutdown and 100 in Running.
C6_NWithinRange ==
    /\ TurbineN(turbine) >= 0
    /\ TurbineN(turbine) <= Percent100
    /\ turbine.state = "Shutdown" => TurbineN(turbine) = 0
    /\ turbine.state = "Running" => TurbineN(turbine) = Percent100

\* Stopping after a long tick short of the time limit, N just above 0.
C6_Witness ==
    /\ turbine.state = "Stopping"
    /\ last.from = "Stopping"
    /\ turbine.n > 0
    /\ turbine.n < 1000

(***************************************************************************)
(* Properties of the generator.                                            *)
(***************************************************************************)
\* C7: after an update the generator is powered exactly if the N of the update
\* is at least 84 percent and its emergency shutdown flag is off; unpowered it
\* has 0 V, 0 Hz and 0 A, powered it has 782.60 A.
C7_PoweredIffFastAndNoEmergency ==
    gen_input.updated =>
        /\ IsPowered(generator) <=>
              (gen_input.n >= 84000 /\ ~gen_input.is_emergency_shutdown)
        /\ ~IsPowered(generator) =>
              /\ generator.potential = 0
              /\ generator.frequency = 0
              /\ generator.current = 0
        /\ IsPowered(generator) => generator.current = 78260

\* An emergency shutdown at N = 100 percent, the sampler holding a voltage.
C7_Witness ==
    /\ gen_input = [updated |-> TRUE, n |-> Percent100,
                    is_emergency_shutdown |-> TRUE]
    /\ ~IsPowered(generator)
    /\ generator.potential = 0

\* C8: no update makes a formula panic, and a formula evaluated directly with
\* an N below 84 percent panics.
C8_FormulasPanicOnlyWhenCalledDirectly ==
    /\ ~generator.panicked
    /\ (probe.evaluated /\ probe.n < 84000) =>
          (probe.potential = Panic /\ probe.frequency = Panic)
    /\ (probe.evaluated /\ probe.n >= 84000) =>
          (probe.potential # Panic /\ probe.frequency # Panic)

\* An update with an N just below 84 percent, and a direct evaluation there.
C8_Witness ==
    /\ gen_input = [updated |-> TRUE, n |-> 83999,
                    is_emergency_shutdown |-> FALSE]
    /\ probe.evaluated
    /\ probe.n = 83999
    /\ probe.potential = Panic

\* C9: the sampler always holds 114 V or 115 V; a powered generator has 105 V
\* for an N below 85 percent and the voltage the sampler holds from 85 percent.
C9_PotentialByN ==
    /\ TimedRandomCurrentValue(generator.random_voltage) \in {114, 115}
    /\ (gen_input.updated /\ IsPowered(generator)) =>
          /\ gen_input.n < 85000 => generator.potential = 105
          /\ gen_input.n >= 85000 =>
                generator.potential
                    = TimedRandomCurrentValue(generator.random_voltage)

\* Powered at exactly 85 percent with the occasional 114 V.
C9_Witness ==
    /\ gen_input = [updated |-> TRUE, n |-> 85000,
                    is_emergency_shutdown |-> FALSE]
    /\ IsPowered(generator)
    /\ generator.potential = 114

\* C10: a powered generator has 400 Hz for an N of at least 100 percent and the
\* value of the ramp curve below.
C10_FrequencyByN ==
    (gen_input.updated /\ IsPowered(generator)) =>
        /\ gen_input.n >= Percent100 => generator.frequency = 400000
        /\ gen_input.n < Percent100 =>
              generator.frequency = Lookup(RampFrequencyByN, gen_input.n)

\* Powered just below 100 percent, where the ramp curve is not at 400 Hz.
C10_Witness ==
    /\ gen_input = [updated |-> TRUE, n |-> 99999,
                    is_emergency_shutdown |-> FALSE]
    /\ IsPowered(generator)
    /\ generator.frequency # 400000
\* C11: potential_normal() is true exactly for a stored potential within
\* [110, 120] V and frequency_normal() exactly for a stored frequency within
\* [390, 410] Hz; both are false for an unpowered generator, and
\* potential_normal() is false for a generator powered below 85 percent.
C11_NormalRanges ==
    /\ PotentialNormal(generator) <=> generator.potential \in 110..120
    /\ FrequencyNormal(generator) <=> generator.frequency \in 390000..410000
    /\ ~IsPowered(generator) =>
          (~PotentialNormal(generator) /\ ~FrequencyNormal(generator))
    /\ (gen_input.updated /\ IsPowered(generator) /\ gen_input.n < 85000) =>
          ~PotentialNormal(generator)

\* Powered at 84.5 percent: 105 V, outside the normal range, at a frequency
\* still below it.
C11_Witness ==
    /\ gen_input = [updated |-> TRUE, n |-> 84500,
                    is_emergency_shutdown |-> FALSE]
    /\ IsPowered(generator)
    /\ generator.potential = 105
    /\ ~PotentialNormal(generator)
    /\ ~FrequencyNormal(generator)
\* C16: a generator that has not been updated is unpowered and writes exactly
\* the six values ELEC_APU_GEN_1_POTENTIAL 0, _POTENTIAL_NORMAL false,
\* _FREQUENCY 0, _FREQUENCY_NORMAL false, _LOAD 0 and _LOAD_NORMAL true; every
\* generator writes six values, _LOAD_NORMAL true among them.
C16_WritesItsState ==
    /\ ~gen_input.updated =>
          /\ ~IsPowered(generator)
          /\ Write(generator) =
                ("ELEC_APU_GEN_1_POTENTIAL" :> 0)
                @@ ("ELEC_APU_GEN_1_POTENTIAL_NORMAL" :> FALSE)
                @@ ("ELEC_APU_GEN_1_FREQUENCY" :> 0)
                @@ ("ELEC_APU_GEN_1_FREQUENCY_NORMAL" :> FALSE)
                @@ ("ELEC_APU_GEN_1_LOAD" :> 0)
                @@ ("ELEC_APU_GEN_1_LOAD_NORMAL" :> TRUE)
    /\ Cardinality(DOMAIN Write(generator)) = 6
    /\ LoadNormal(generator)
    /\ Write(generator)["ELEC_APU_GEN_1_LOAD_NORMAL"]

\* The generator as constructed, its formulas evaluated but no update made.
C16_Witness ==
    /\ ~gen_input.updated
    /\ probe.evaluated
    /\ generator.output = "None"
    /\ Write(generator)["ELEC_APU_GEN_1_FREQUENCY"] = 0
(***************************************************************************)
(* Properties of the unit.                                                 *)
(***************************************************************************)
\* C12: after every tick that leaves the turbine in Running with the emergency
\* shutdown flag off, the generator is powered with 114 V or 115 V and 400 Hz,
\* both within their normal ranges.
C12_RunningGeneratorNormal ==
    (turbine.state = "Running" /\ ~gen_input.is_emergency_shutdown) =>
        /\ gen_input.updated
        /\ gen_input.n = 100000
        /\ IsPowered(generator)
        /\ generator.potential \in 114..115
        /\ generator.frequency = 400000
        /\ PotentialNormal(generator)
        /\ FrequencyNormal(generator)

\* A further tick in Running, the sampler at its occasional 114 V.
C12_Witness ==
    /\ turbine.state = "Running"
    /\ last.from = "Running"
    /\ ~gen_input.is_emergency_shutdown
    /\ generator.potential = 114
    /\ FrequencyNormal(generator)
\* C13: while the turbine starts or has started, after every tick with the
\* emergency shutdown flag off that leaves N above 84 percent the generator has
\* been updated with that N and has a potential above 0 V and a frequency
\* above 0 Hz.
C13_OutputFrom84 ==
    (/\ turbine.state \in {"Starting", "Running"}
     /\ TurbineN(turbine) > 84000
     /\ ~gen_input.is_emergency_shutdown) =>
        /\ gen_input.updated
        /\ gen_input.n = TurbineN(turbine)
        /\ generator.potential > 0
        /\ generator.frequency > 0

\* Starting between 84 and 85 percent: 105 V at a frequency of the ramp.
C13_Witness ==
    /\ turbine.state = "Starting"
    /\ turbine.n > 84000
    /\ turbine.n < 85000
    /\ ~gen_input.is_emergency_shutdown
    /\ generator.potential = 105
    /\ generator.frequency > 0
    /\ generator.frequency < 390000
(***************************************************************************)
(* Properties of the running turbine.                                      *)
(***************************************************************************)
\* The entry deviation and both load offsets are zero and the EGT is the
\* base EGT.
Settled ==
    /\ turbine.state = "Running"
    /\ turbine.base_egt_deviation = 0
    /\ ApuGenEgtDelta(turbine.apu_gen_usage) = 0
    /\ BleedAirEgtDelta(turbine.bleed_air_usage) = 0
    /\ turbine.egt = turbine.base_egt

\* C14: a running turbine whose bleed air and generator stay unused comes,
\* within finitely many ticks, to an entry deviation, a generator offset and a
\* bleed air offset of zero and an EGT equal to its base EGT, and a tick
\* without use keeps it there.
C14_ConvergesToBaseEgt ==
    /\ (turbine.state = "Running") ~> Settled
    /\ [][(Settled /\ used' = used) => Settled']_vars

\* Settled again after a tick with load in this run.
C14_Witness ==
    /\ Settled
    /\ used > 0
    /\ last.from = "Running"
\* C15: whenever Running is entered, its bleed air offset, the target of that
\* offset and its time of generator use are zero, so that the first tick in
\* Running without load adds no load offset to the EGT.
C15_FreshHelpersOnEntry ==
    /\ [][(turbine.state # "Running" /\ turbine'.state = "Running") =>
             /\ turbine'.bleed_air_usage.current = 0
             /\ turbine'.bleed_air_usage.target = 0
             /\ turbine'.apu_gen_usage.time = 0]_vars
    /\ [][(turbine.state = "Running" /\ last.from # "Running"
           /\ turbine'.state = "Running" /\ used' = 0) =>
             turbine'.egt = turbine'.base_egt + turbine'.base_egt_deviation]_vars

\* Running entered again after a run with load.
C15_Witness ==
    /\ turbine.state = "Running"
    /\ last.from = "Starting"
    /\ used > 0
    /\ turbine.bleed_air_usage.current = 0
    /\ turbine.apu_gen_usage.time = 0
(***************************************************************************)
(* Properties of the EGT latch of Starting.                                *)
(***************************************************************************)
\* C17: Starting is entered with the latch set; a tick in Starting with the
\* latch set releases it exactly if the polynomial EGT of the new N exceeds
\* the prior EGT moved towards ambient, and otherwise reports that moved EGT;
\* a tick with the latch released leaves it released; with the latch released
\* the polynomial EGT is reported, whatever the prior EGT moved towards
\* ambient is.
C17_LatchReleasesOnce ==
    /\ [][(turbine.state = "Shutdown" /\ turbine'.state = "Starting") =>
             turbine'.ignore_calculated_egt]_vars
    /\ [][(turbine.state = "Starting" /\ turbine'.state = "Starting") =>
             LET towards == CalculateTowardsAmbientEgt(
                                turbine.egt, turbine'.since - turbine.since)
                 temperature == Lookup(StartingEgtByN, turbine'.n)
             IN  /\ ~turbine.ignore_calculated_egt =>
                        ~turbine'.ignore_calculated_egt
                 /\ turbine.ignore_calculated_egt =>
                        (turbine'.ignore_calculated_egt <=>
                            ~(temperature > towards))
                 /\ turbine'.ignore_calculated_egt => turbine'.egt = towards
                 /\ ~turbine'.ignore_calculated_egt =>
                        turbine'.egt = temperature]_vars

\* The latch released and, late in the start where the polynomial EGT falls
\* from tick to tick, that EGT reported below the ambient temperature and so
\* below the prior EGT moved towards ambient.
C17_Witness ==
    /\ turbine.state = "Starting"
    /\ ~turbine.ignore_calculated_egt
    /\ turbine.n > 80000
    /\ turbine.egt = Lookup(StartingEgtByN, turbine.n)
    /\ turbine.egt < ambient
(***************************************************************************)
(* Properties of Stopping.                                                 *)
(***************************************************************************)
\* C18: from one tick in Stopping to the next N does not increase, starting
\* from the N with which Stopping was entered, also when it was entered from
\* Starting below 100 percent.
C18_StoppingNNonIncreasing ==
    [][(turbine.state = "Stopping" /\ turbine'.state = "Stopping") =>
          turbine'.n <= turbine.n]_vars
\* C19: while the turbine is in Stopping after a start stopped with N below
\* 84 percent, the generator is not powered.
C19_AbortedStartNeverPowers ==
    (turbine.state = "Stopping" /\ last.entered_n < 84000) =>
        ~IsPowered(generator)
\* C20: a turbine in Stopping has the same update whatever the requests and
\* the usage flags are; a tick leaves it in Stopping with the recomputed N
\* above 0, or in Shutdown when the recomputed N is 0; and the tick after
\* Shutdown is reached starts the turbine only on a start request of its own.
C20_StoppingIgnoresInputs ==
    /\ [](turbine.state = "Stopping" =>
             \A delta \in Deltas, b \in BOOLEAN, g \in BOOLEAN,
                should_start \in BOOLEAN, should_stop \in BOOLEAN :
                TurbineUpdate(turbine, delta, b, g, should_start, should_stop)
                    = TurbineUpdate(turbine, delta, FALSE, FALSE, FALSE, FALSE))
    /\ [][turbine.state = "Stopping" =>
             \/ /\ turbine'.state = "Stopping"
                /\ turbine'.n > 0
                /\ turbine'.n = StoppingNTable[
                                    Min(turbine'.since, StoppingTimeLimit) + 1]
             \/ /\ turbine'.state = "Shutdown"
                /\ \E delta \in Deltas :
                      StoppingNTable[Min(turbine.since + delta,
                                         StoppingTimeLimit) + 1] <= 0]_vars
    /\ [][(turbine.state = "Shutdown" /\ last.from = "Stopping"
           /\ last'.request = "none") => turbine'.state = "Shutdown"]_vars

\* Shutdown reached on a tick in Stopping that carried a start request.
C20_Witness ==
    /\ turbine.state = "Shutdown"
    /\ last = [from |-> "Stopping", request |-> "start"]

(***************************************************************************)
(* C21: in Starting N is exactly 0 % after every tick for which no more    *)
(* than 1.5 s have passed since Starting was entered, whatever the sizes   *)
(* of the ticks, and every Starting episode, the first as well as one      *)
(* after an abandoned start, begins with 0 s elapsed and N = 0 %.          *)
(***************************************************************************)
C21_IgnitionDelay ==
    [][/\ (turbine'.state = "Starting"
            /\ 2 * turbine'.since <= 3 * UnitsPerSecond)
              => turbine'.n = 0
       /\ (turbine.state # "Starting" /\ turbine'.state = "Starting")
              => (turbine'.since = 0 /\ turbine'.n = 0)]_vars

\* Exactly 1.5 s into a Starting episode that follows an abandoned start, the
\* exhaust still hotter than any air of StartInit: N is 0 %.
C21_Witness ==
    /\ turbine.state = "Starting"
    /\ last.from = "Starting"
    /\ 2 * turbine.since = 3 * UnitsPerSecond
    /\ turbine.n = 0
    /\ turbine.egt > 5000


(***************************************************************************)
(* C22: every tick in Running lowers the entry deviation by the elapsed    *)
(* seconds times 1 degree C and no further than to zero, so that it never  *)
(* rises and is never negative, and the EGT of Running, on entry and after *)
(* every tick, is the base EGT plus the entry deviation plus the offset of *)
(* the generator load plus the offset of the bleed air.                    *)
(***************************************************************************)
C22_EntryDeviationDecays ==
    [][turbine'.state = "Running" =>
         /\ turbine'.base_egt_deviation >= 0
         /\ turbine'.egt = turbine'.base_egt + turbine'.base_egt_deviation
                             + ApuGenEgtDelta(turbine'.apu_gen_usage)
                             + BleedAirEgtDelta(turbine'.bleed_air_usage)
         /\ turbine.state = "Running" =>
               /\ turbine'.base_egt = turbine.base_egt
               /\ turbine'.base_egt_deviation <= turbine.base_egt_deviation
               /\ \E delta \in RunDeltas :
                      turbine'.base_egt_deviation
                        = Max(turbine.base_egt_deviation
                                - (delta * 100) \div UnitsPerSecond, 0)]_vars

\* Running after a tick with both loads: the deviation is lowered and not yet
\* zero, and both offsets are part of the EGT.
C22_Witness ==
    /\ turbine.state = "Running"
    /\ last.from = "Running"
    /\ turbine.base_egt_deviation > 0
    /\ turbine.egt > turbine.base_egt + turbine.base_egt_deviation
    /\ ApuGenEgtDelta(turbine.apu_gen_usage) > 0
    /\ BleedAirEgtDelta(turbine.bleed_air_usage) > 0


(***************************************************************************)
(* C23: after every update of the bleed-air usage model, whatever the      *)
(* elapsed time and the flags before it, the offset lies between 0 and     *)
(* max, max being the 90 degrees C times a multiplier between 0.95 and     *)
(* 1.05 of the construction; the update leaves the offset no farther from  *)
(* its target (max with the bleed air in use, 0 without) than it was, and  *)
(* leaves an offset that is at its target where it is.                     *)
(***************************************************************************)
C23_BleedOffsetBounded ==
    [][probe'.kind = "bleed_air_usage" =>
         LET before == probe.usage
             after == probe'.usage
             target == IF probe'.in_use THEN before.max ELSE 0
         IN  /\ after.max = before.max
             /\ 100 * after.max >= 95 * 900
             /\ 100 * after.max <= 105 * 900
             /\ after.current >= 0
             /\ after.current <= after.max
             /\ after.target = target
             /\ Abs(after.current - target) <= Abs(before.current - target)
             /\ before.current = target => after.current = before.current]_vars

\* The bleed air no longer in use: the offset, raised by earlier updates, is
\* on its way down and not yet back at 0.
C23_Witness ==
    /\ probe.kind = "bleed_air_usage"
    /\ probe.updated
    /\ ~probe.in_use
    /\ probe.usage.current > 0
    /\ probe.usage.current < probe.usage.max


(***************************************************************************)
(* C24: after every update of the generator-load usage model the on-time   *)
(* lies between 0 s and 10 s: it is the on-time before plus the elapsed    *)
(* time, 10 s at most, with the generator in use, and the on-time before   *)
(* minus the elapsed time, 0 s at least, without.  The offset is the       *)
(* on-time times the rate of the construction, so that it lies between 0   *)
(* and 15 degrees C, and between 10 and 15 degrees C at 10 s.              *)
(***************************************************************************)
C24_GenOnTimeBounded ==
    [][probe'.kind = "apu_gen_usage" =>
         LET before == probe.usage
             after == probe'.usage
             elapsed == probe'.delta
             offset == ApuGenEgtDelta(after)
         IN  /\ after.time >= 0
             /\ after.time <= 10 * UnitsPerSecond
             /\ probe'.in_use =>
                   after.time = Min(before.time + elapsed, 10 * UnitsPerSecond)
             /\ ~probe'.in_use =>
                   after.time = Max(before.time - elapsed, 0)
             /\ after.base_egt_delta_per_second = before.base_egt_delta_per_second
             /\ 10 * UnitsPerSecond * offset <= after.time * after.base_egt_delta_per_second
             /\ 10 * UnitsPerSecond * (offset + 1) > after.time * after.base_egt_delta_per_second
             /\ offset >= 0
             /\ offset <= 1500
             /\ after.time = 10 * UnitsPerSecond => offset >= 1000]_vars

\* The generator in use for 10 s or longer over several updates: the on-time
\* is 10 s and the offset is more than 10 degrees C.
C24_Witness ==
    /\ probe.kind = "apu_gen_usage"
    /\ probe.updated
    /\ probe.in_use
    /\ probe.delta < 10 * UnitsPerSecond
    /\ probe.usage.time = 10 * UnitsPerSecond
    /\ ApuGenEgtDelta(probe.usage) > 1000

====
